---- MODULE Spec2Model ----
(***************************************************************************)
(* claude-notify (bin/claude-notify.js): a wrapper that runs the claude    *)
(* CLI in a pty, infers from its output whether it is working or waiting,  *)
(* and posts a Slack notification after the configured idle delay.         *)
(*                                                                         *)
(* The module-level variables of the script are the VARIABLES below.  The  *)
(* script's functions are operators from a session record to a session     *)
(* record (the JavaScript mutates its globals statement by statement; the  *)
(* operators thread the record through the same statements).  Every event  *)
(* handler of the Node event loop is one action: the handlers run to       *)
(* completion one at a time.                                               *)
(***************************************************************************)
EXTENDS Naturals, Sequences, FiniteSets, TLC

VARIABLES
    \* configuration, fixed at start (lines 30-34)
    NOTIFICATIONS_DISABLED, SLACK_WEBHOOK_URL, NGROK_DOMAIN,
    \* state variables (lines 90-96)
    userHasEngaged, notificationSent, isClaudeWorking, notificationTimer,
    currentState, claudeDataChunks,
    \* server integration (lines 110-112) and the webhook server
    claude, ngrokUrl, webhookServer,
    \* the Node runtime: timers scheduled by setTimeout and not yet fired or
    \* cleared, axios posts in flight, the last write to the pty
    timers, posts, ptyInput,
    \* process lifecycle
    pc, killed, claudeExit, exitCode,
    \* digest of auditLog (line 39) since the last WORKING -> WAITING entry
    episode,
    \* the handler that ran last
    lastEvent

vars == <<NOTIFICATIONS_DISABLED, SLACK_WEBHOOK_URL, NGROK_DOMAIN,
          userHasEngaged, notificationSent, isClaudeWorking, notificationTimer,
          currentState, claudeDataChunks, claude, ngrokUrl, webhookServer,
          timers, posts, ptyInput, pc, killed, claudeExit, exitCode,
          episode, lastEvent>>

config == <<NOTIFICATIONS_DISABLED, SLACK_WEBHOOK_URL, NGROK_DOMAIN>>

(***************************************************************************)
(* Bounds of the model.                                                    *)
(***************************************************************************)
\* chunks claudeDataChunks may hold: output stops until the user submits a line
MaxChunks == 4
\* axios posts in flight at once
MaxPosts == 1
\* the audit digest counts up to this and stays there
CountCap == 2

\* null, for notificationTimer and exitCode
Null == 0

(***************************************************************************)
(* Text.  A text is a sequence of tokens; a token is a run of characters   *)
(* that the script never looks inside.  "to interrupt" followed by ")" is  *)
(* the busy marker of line 368, "esc " followed by "to interrupt" the      *)
(* footer phrase of line 514.                                              *)
(***************************************************************************)
InterruptText == <<"to interrupt", ")">>
EscToInterrupt == <<"esc ", "to interrupt">>
\* line 502 splits on the two code points U+00E2 U+2014
TaskGlyph == "<U+00E2><U+2014>"
\* a colour escape sequence, matched by /\x1b\[[0-9;]*m/ (line 506)
AnsiCodes == {"<ESC>[0m", "<ESC>[1;32m"}
WhiteSpace == {" ", "\n", "\r", "\t"}

\* String.prototype.includes / Buffer.prototype.includes
Includes(text, part) ==
    \E i \in 1..(Len(text) + 1 - Len(part)) :
        SubSeq(text, i, i + Len(part) - 1) = part

\* what the pty can emit in one chunk
Chunks == { <<"Done.">>, <<"esc ", "to interrupt", ")">> }
\* what the terminal can deliver in one stdin batch
Batches == { <<"y">>, <<"\r">>, <<"y", "\n">> }
\* the text of a Slack message event ("" is falsy)
Texts == { <<>>, <<"y">> }

(***************************************************************************)
(* The session: the script's globals and the runtime state they reach.     *)
(***************************************************************************)
Session ==
    [ userHasEngaged    |-> userHasEngaged,
      notificationSent  |-> notificationSent,
      isClaudeWorking   |-> isClaudeWorking,
      notificationTimer |-> notificationTimer,
      currentState      |-> currentState,
      claudeDataChunks  |-> claudeDataChunks,
      timers            |-> timers,
      posts             |-> posts,
      ptyInput          |-> ptyInput,
      episode           |-> episode ]

Commit(s) ==
    /\ userHasEngaged' = s.userHasEngaged
    /\ notificationSent' = s.notificationSent
    /\ isClaudeWorking' = s.isClaudeWorking
    /\ notificationTimer' = s.notificationTimer
    /\ currentState' = s.currentState
    /\ claudeDataChunks' = s.claudeDataChunks
    /\ timers' = s.timers
    /\ posts' = s.posts
    /\ ptyInput' = s.ptyInput
    /\ episode' = s.episode

\* The audit digest when a WORKING -> WAITING transition has just been logged.
NewEpisode ==
    [ armed |-> 0, evaluations |-> 0, attempts |-> 0, notified |-> 0,
      input |-> FALSE, cancelled |-> FALSE ]

Bump(n) == IF n < CountCap THEN n + 1 ELSE n

\* logStateTransition(event): the entries the digest keeps
logStateTransition(s, event) ==
    CASE event = "NOTIFICATION_TIMER_STARTED" ->
            [s EXCEPT !.episode.armed = Bump(@)]
      [] event = "NOTIFICATION_EVALUATION" ->
            [s EXCEPT !.episode.evaluations = Bump(@)]
      [] event = "SLACK_NOTIFICATION_ATTEMPT" ->
            [s EXCEPT !.episode.attempts = Bump(@)]
      [] event \in {"USER_INPUT_RECEIVED", "SLACK_MESSAGE_RECEIVED"} ->
            [s EXCEPT !.episode.input = TRUE]
      [] OTHER -> s

transitionToState(s, newState) ==
    LET oldState == s.currentState
        t == [s EXCEPT !.currentState = newState]
    IN  \* the STATE_TRANSITION entry {from, to}
        IF oldState = "WORKING" /\ newState = "WAITING"
        THEN [t EXCEPT !.episode = NewEpisode]
        ELSE IF newState = "NOTIFIED"
        THEN [t EXCEPT !.episode.notified = Bump(@)]
        ELSE t

\* clearTimeout(handle)
clearTimeout(s, handle) ==
    [s EXCEPT !.timers = {t \in @ : t.id # handle}]

\* clearAllTimers that empties the slot and leaves the timer scheduled
clearAllTimers_stillScheduled(s, reason) ==
    IF s.notificationTimer # Null
    THEN [s EXCEPT !.notificationTimer = Null,
                   !.episode.cancelled =
                       @ \/ reason \in {"user_input_received", "slack_message_received"}]
    ELSE s

clearAllTimers(s, reason) ==
    IF s.notificationTimer # Null
    THEN LET a == clearTimeout(s, s.notificationTimer)
             b == [a EXCEPT !.notificationTimer = Null]
         IN  \* the NOTIFICATION_TIMER_CLEARED entry {reason}
             [b EXCEPT !.episode.cancelled =
                 @ \/ reason \in {"user_input_received", "slack_message_received"}]
    ELSE s

\* shouldSendNotification that does not ask whether the user has engaged
shouldSendNotification_unengaged(s) ==
    /\ ~s.notificationSent
    /\ ~s.isClaudeWorking
    /\ ~NOTIFICATIONS_DISABLED

shouldSendNotification(s) ==
    /\ s.userHasEngaged
    /\ ~s.notificationSent
    /\ ~s.isClaudeWorking
    /\ ~NOTIFICATIONS_DISABLED

getSkipReason(s) ==
    IF ~s.userHasEngaged THEN "user_not_engaged"
    ELSE IF s.notificationSent THEN "notification_already_sent"
    ELSE IF s.isClaudeWorking THEN "claude_still_working"
    ELSE IF NOTIFICATIONS_DISABLED THEN "notifications_disabled"
    ELSE "unknown"

shouldStartNotificationTimer(s) ==
    s.currentState = "WAITING" /\ s.notificationTimer = Null

(***************************************************************************)
(* The task summary of a notification (lines 500-520).                     *)
(***************************************************************************)
\* the cap of line 520, in characters
TaskCap == 1000

\* characters of the run of x the extractor is tried on
FillerLen == 600

\* the token that stands for n characters x in a row
Run(n) == "<x * " \o ToString(n) \o ">"

\* characters of a token
CharLen(tok) ==
    CASE tok \in {"Done.", "Step1", "Step2"} -> 5
      [] tok \in {"esc ", "work", "more"} -> 4
      [] tok = "to interrupt" -> 12
      [] tok = "footer" -> 6
      [] tok = TaskGlyph -> 2
      [] tok = Run(FillerLen) -> FillerLen
      [] OTHER -> 1

RECURSIVE Join(_)
\* claudeDataChunks.join('')
Join(chunks) ==
    IF chunks = <<>> THEN <<>> ELSE Head(chunks) \o Join(Tail(chunks))

\* split(sep): the pieces between the occurrences of the token sep
RECURSIVE Split(_, _)
Split(text, sep) ==
    IF \A i \in 1..Len(text) : text[i] # sep
    THEN <<text>>
    ELSE LET i == CHOOSE k \in 1..Len(text) :
                      text[k] = sep /\ \A j \in 1..(k - 1) : text[j] # sep
         IN  <<SubSeq(text, 1, i - 1)>> \o Split(SubSeq(text, i + 1, Len(text)), sep)

\* pieces.join(sep)
RECURSIVE JoinWith(_, _)
JoinWith(pieces, sep) ==
    IF pieces = <<>> THEN <<>>
    ELSE IF Len(pieces) = 1 THEN pieces[1]
    ELSE pieces[1] \o <<sep>> \o JoinWith(Tail(pieces), sep)

\* String.prototype.trim
RECURSIVE Trim(_)
Trim(text) ==
    IF text = <<>> THEN text
    ELSE IF Head(text) \in WhiteSpace THEN Trim(Tail(text))
    ELSE IF text[Len(text)] \in WhiteSpace THEN Trim(SubSeq(text, 1, Len(text) - 1))
    ELSE text

\* substring(0, n): the cut may fall inside a run of x, which is cut to the
\* run that fits; the texts tried hold no other token where the cut falls
RECURSIVE Substring(_, _)
Substring(text, n) ==
    IF text = <<>> \/ n = 0 THEN <<>>
    ELSE IF CharLen(Head(text)) <= n
    THEN <<Head(text)>> \o Substring(Tail(text), n - CharLen(Head(text)))
    ELSE IF Head(text) = Run(FillerLen) THEN <<Run(n)>>
    ELSE <<>>

\* line 506: replace(/\x1b\[[0-9;]*m/g, '')
StripAnsi(text) == SelectSeq(text, LAMBDA tok : tok \notin AnsiCodes)

\* lines 509-518: the lines before the first one holding the footer phrase
RECURSIVE FilterLines(_)
FilterLines(lines) ==
    IF lines = <<>> \/ Includes(Trim(Head(lines)), EscToInterrupt) THEN <<>>
    ELSE <<Head(lines)>> \o FilterLines(Tail(lines))

\* lines 501-520: cleanedTask
extractTask(chunks) ==
    LET fullBuffer == Join(chunks)
        tasks == Split(fullBuffer, TaskGlyph)
        lastTask == IF Len(tasks) > 1 THEN tasks[Len(tasks)] ELSE fullBuffer
        cleanedTask == StripAnsi(lastTask)
        filteredLines == FilterLines(Split(cleanedTask, "\n"))
    IN  Substring(Trim(JoinWith(filteredLines, "\n")), TaskCap)

\* sendSlackNotification up to its await (lines 482-578): the post is issued
sendSlackNotification(s) ==
    LET a == logStateTransition(s, "SLACK_NOTIFICATION_ATTEMPT")
        cleanedTask == extractTask(a.claudeDataChunks)
        payload == [ text |-> IF Len(cleanedTask) > 0
                              THEN "Claude completed a task"
                              ELSE "Claude is waiting for your input",
                     cleanedTask |-> cleanedTask,
                     reply |-> ngrokUrl ]
    IN  IF NOTIFICATIONS_DISABLED THEN a
        ELSE IF ~SLACK_WEBHOOK_URL THEN a
        ELSE [a EXCEPT !.posts = Append(@, payload)]

\* the callback that leaves its own handle in the slot
timerCallback_keepsSlot(s) ==
    LET b == logStateTransition(s, "NOTIFICATION_EVALUATION")
    IN  IF shouldSendNotification(s)
        THEN transitionToState(
                 [sendSlackNotification(b) EXCEPT !.notificationSent = TRUE],
                 "NOTIFIED")
        ELSE b

\* the callback given to setTimeout (lines 152-161)
timerCallback(s) ==
    LET a == [s EXCEPT !.notificationTimer = Null]
        b == logStateTransition(a, "NOTIFICATION_EVALUATION")
    IN  IF shouldSendNotification(a)
        THEN transitionToState(
                 [sendSlackNotification(b) EXCEPT !.notificationSent = TRUE],
                 "NOTIFIED")
        ELSE b

\* setTimeout(callback, NOTIFICATION_TIMEOUT): a new handle; from is the state
\* the session left when the timer was armed
setTimeout(s, from) ==
    LET used == {t.id : t \in s.timers}
        handle == CHOOSE n \in 1..(Cardinality(used) + 1) : n \notin used
    IN  [s EXCEPT !.timers = @ \cup {[id |-> handle, from |-> from]},
                  !.notificationTimer = handle]

\* transitionToWorking that does not set isClaudeWorking
transitionToWorking_notBusy(s) ==
    IF s.currentState # "WORKING"
    THEN transitionToState(clearAllTimers(s, "entered_working_state"), "WORKING")
    ELSE s

\* transitionToWorking that leaves the countdown running
transitionToWorking_keepsTimer(s) ==
    IF s.currentState # "WORKING"
    THEN transitionToState([s EXCEPT !.isClaudeWorking = TRUE], "WORKING")
    ELSE s

transitionToWorking(s) ==
    IF s.currentState # "WORKING"
    THEN LET a == [s EXCEPT !.isClaudeWorking = TRUE]
             b == clearAllTimers(a, "entered_working_state")
         IN  transitionToState(b, "WORKING")
    ELSE s

\* transitionToWaiting that does not reset isClaudeWorking
transitionToWaiting_staysBusy(s) ==
    IF s.currentState # "WAITING"
    THEN LET b == transitionToState(s, "WAITING")
         IN  IF shouldStartNotificationTimer(b)
             THEN setTimeout(logStateTransition(b, "NOTIFICATION_TIMER_STARTED"),
                             s.currentState)
             ELSE b
    ELSE s

transitionToWaiting(s) ==
    IF s.currentState # "WAITING"
    THEN LET a == [s EXCEPT !.isClaudeWorking = FALSE]
             b == transitionToState(a, "WAITING")
         IN  IF shouldStartNotificationTimer(b)
             THEN setTimeout(logStateTransition(b, "NOTIFICATION_TIMER_STARTED"),
                             s.currentState)
             ELSE b
    ELSE s

(***************************************************************************)
(* The event handlers.                                                     *)
(***************************************************************************)
\* line 368
containsInterruptText(data) == Includes(data, InterruptText)

\* line 422
isEnterKey(data) == Includes(data, <<"\r">>) \/ Includes(data, <<"\n">>)

\* claude.onData that takes every chunk without the marker as the end of work
claudeOnData_anyIdleChunk(s, data) ==
    LET a == [s EXCEPT !.claudeDataChunks = Append(@, data)]
    IN  IF containsInterruptText(data) /\ a.currentState # "WORKING"
        THEN transitionToWorking(a)
        ELSE IF ~containsInterruptText(data)
        THEN transitionToWaiting(a)
        ELSE a

\* claude.onData that restarts the countdown on output while waiting
claudeOnData_restartsCountdown(s, data) ==
    LET a == [s EXCEPT !.claudeDataChunks = Append(@, data)]
    IN  IF containsInterruptText(data) /\ a.currentState # "WORKING"
        THEN transitionToWorking(a)
        ELSE IF ~containsInterruptText(data) /\ a.currentState = "WORKING"
        THEN transitionToWaiting(a)
        ELSE IF ~containsInterruptText(data) /\ a.currentState = "WAITING"
        THEN setTimeout(clearAllTimers(a, "output_while_waiting"), "WAITING")
        ELSE a

\* claude.onData with a summary that is read from the buffer when it is sent:
\* the posts in flight follow the buffer
claudeOnData_lazySummary(s, data) ==
    LET a == [s EXCEPT !.claudeDataChunks = Append(@, data)]
        b == [a EXCEPT !.posts =
                 [i \in 1..Len(@) |->
                     [@[i] EXCEPT !.cleanedTask = extractTask(a.claudeDataChunks)]]]
    IN  IF containsInterruptText(data) /\ b.currentState # "WORKING"
        THEN transitionToWorking(b)
        ELSE IF ~containsInterruptText(data) /\ b.currentState = "WORKING"
        THEN transitionToWaiting(b)
        ELSE b

\* claude.onData (lines 362-413)
claudeOnData(s, data) ==
    LET a == [s EXCEPT !.claudeDataChunks = Append(@, data)]
    IN  IF containsInterruptText(data) /\ a.currentState # "WORKING"
        THEN transitionToWorking(a)
        ELSE IF ~containsInterruptText(data) /\ a.currentState = "WORKING"
        THEN transitionToWaiting(a)
        ELSE a

\* the stdin handler that starts a countdown when it leaves NOTIFIED
stdinOnData_rearms(s, data) ==
    LET a == [s EXCEPT !.ptyInput = data]
        b == logStateTransition(a, "USER_INPUT_RECEIVED")
        c == clearAllTimers(b, "user_input_received")
        d == [c EXCEPT !.notificationSent = FALSE]
        e == IF isEnterKey(data) THEN [d EXCEPT !.claudeDataChunks = <<>>] ELSE d
        f == IF isEnterKey(data) /\ ~e.userHasEngaged
             THEN [e EXCEPT !.userHasEngaged = TRUE]
             ELSE e
    IN  IF f.currentState = "NOTIFIED" THEN transitionToWaiting(f) ELSE f

\* the stdin handler that takes any keystroke as engagement
stdinOnData_anyKeyEngages(s, data) ==
    LET a == [s EXCEPT !.ptyInput = data]
        b == logStateTransition(a, "USER_INPUT_RECEIVED")
        c == clearAllTimers(b, "user_input_received")
        d == [c EXCEPT !.notificationSent = FALSE]
        e == IF isEnterKey(data) THEN [d EXCEPT !.claudeDataChunks = <<>>] ELSE d
        f == IF ~e.userHasEngaged THEN [e EXCEPT !.userHasEngaged = TRUE] ELSE e
    IN  IF f.currentState = "NOTIFIED" THEN transitionToState(f, "WAITING") ELSE f

\* process.stdin.on('data') (lines 419-468)
\* the stdin handler that leaves NOTIFIED only when a line is submitted
stdinOnData_keysStayNotified(s, data) ==
    LET a == [s EXCEPT !.ptyInput = data]
        b == logStateTransition(a, "USER_INPUT_RECEIVED")
        c == clearAllTimers(b, "user_input_received")
        d == [c EXCEPT !.notificationSent = FALSE]
        e == IF isEnterKey(data) THEN [d EXCEPT !.claudeDataChunks = <<>>] ELSE d
        f == IF isEnterKey(data) /\ ~e.userHasEngaged
             THEN [e EXCEPT !.userHasEngaged = TRUE]
             ELSE e
    IN  IF f.currentState = "NOTIFIED" /\ isEnterKey(data)
        THEN transitionToState(f, "WAITING")
        ELSE f

stdinOnData(s, data) ==
    LET a == [s EXCEPT !.ptyInput = data]
        b == logStateTransition(a, "USER_INPUT_RECEIVED")
        c == clearAllTimers(b, "user_input_received")
        d == [c EXCEPT !.notificationSent = FALSE]
        e == IF isEnterKey(data) THEN [d EXCEPT !.claudeDataChunks = <<>>] ELSE d
        f == IF isEnterKey(data) /\ ~e.userHasEngaged
             THEN [e EXCEPT !.userHasEngaged = TRUE]
             ELSE e
    IN  IF f.currentState = "NOTIFIED" THEN transitionToState(f, "WAITING") ELSE f

\* what a POST /webhook can carry: req.body.type, req.body.event and its fields
Requests ==
    [ type : {"url_verification", "event_callback"},
      event : BOOLEAN,
      eventType : {"message", "reaction_added"},
      text : Texts,
      bot_id : BOOLEAN ]

\* lines 241-245: the request is a message event of a user
isUserMessage(req) ==
    /\ req.type = "event_callback" /\ req.event
    /\ req.eventType = "message" /\ req.text # <<>> /\ ~req.bot_id

\* the webhook handler that stays in NOTIFIED
webhookPost_staysNotified(s, req) ==
    IF req.type = "url_verification" THEN s
    ELSE IF isUserMessage(req) /\ claude
    THEN LET a == [s EXCEPT !.ptyInput = req.text \o <<"\n">>]
             b == logStateTransition(a, "SLACK_MESSAGE_RECEIVED")
             c == clearAllTimers(b, "slack_message_received")
         IN  [c EXCEPT !.notificationSent = FALSE, !.userHasEngaged = TRUE]
    ELSE s

\* the webhook handler that starts a countdown when it leaves NOTIFIED
webhookPost_rearms(s, req) ==
    IF req.type = "url_verification" THEN s
    ELSE IF isUserMessage(req) /\ claude
    THEN LET a == [s EXCEPT !.ptyInput = req.text \o <<"\n">>]
             b == logStateTransition(a, "SLACK_MESSAGE_RECEIVED")
             c == clearAllTimers(b, "slack_message_received")
             d == [c EXCEPT !.notificationSent = FALSE, !.userHasEngaged = TRUE]
         IN  IF d.currentState = "NOTIFIED" THEN transitionToWaiting(d) ELSE d
    ELSE s

\* app.post('/webhook') (lines 228-270)
webhookPost(s, req) ==
    IF req.type = "url_verification" THEN s
    ELSE IF isUserMessage(req) /\ claude
    THEN LET a == [s EXCEPT !.ptyInput = req.text \o <<"\n">>]
             b == logStateTransition(a, "SLACK_MESSAGE_RECEIVED")
             c == clearAllTimers(b, "slack_message_received")
             d == [c EXCEPT !.notificationSent = FALSE, !.userHasEngaged = TRUE]
         IN  IF d.currentState = "NOTIFIED"
             THEN transitionToState(d, "WAITING")
             ELSE d
    ELSE s

\* cleanup that leaves the timer alone
cleanup_keepsTimer(s) == s

\* cleanup (lines 590-615), the part that touches the session
cleanup(s) == clearAllTimers(s, "cleanup")

\* the exit codes a subprocess can end with
ExitCodes == {0, 1, 130}

(***************************************************************************)
(* The state machine.                                                      *)
(***************************************************************************)
Init ==
    /\ NOTIFICATIONS_DISABLED \in BOOLEAN
    /\ SLACK_WEBHOOK_URL \in BOOLEAN
    /\ NGROK_DOMAIN \in BOOLEAN
    /\ userHasEngaged = FALSE
    /\ notificationSent = FALSE
    /\ isClaudeWorking = FALSE
    /\ notificationTimer = Null
    /\ currentState = "IDLE"
    /\ claudeDataChunks = <<>>
    /\ claude = FALSE
    /\ ngrokUrl = FALSE
    /\ webhookServer = FALSE
    /\ timers = {}
    /\ posts = <<>>
    /\ ptyInput = <<>>
    /\ pc = "load"
    /\ killed = FALSE
    /\ claudeExit = <<>>
    /\ exitCode = <<>>
    /\ episode = NewEpisode
    /\ lastEvent = "SESSION_STARTED"

session == <<userHasEngaged, notificationSent, isClaudeWorking, notificationTimer,
             currentState, claudeDataChunks, timers, posts, ptyInput, episode>>

\* process.exit(code)
Exit(code) == pc' = "exited" /\ exitCode' = <<code>>

\* lines 115-121
ConfigError ==
    /\ pc = "load"
    /\ ~NOTIFICATIONS_DISABLED /\ (~SLACK_WEBHOOK_URL \/ ~NGROK_DOMAIN)
    /\ Exit(1)
    /\ lastEvent' = "config_error"
    /\ UNCHANGED <<config, session, claude, ngrokUrl, webhookServer, killed, claudeExit>>

\* startClaudeNotify up to the tunnel (lines 319-328), setupWebhookServer
StartServer ==
    /\ pc = "load"
    /\ NOTIFICATIONS_DISABLED \/ (SLACK_WEBHOOK_URL /\ NGROK_DOMAIN)
    /\ IF NGROK_DOMAIN
       THEN webhookServer' = TRUE /\ pc' = "tunnel"
       ELSE webhookServer' = FALSE /\ pc' = "spawn"
    /\ lastEvent' = "start"
    /\ UNCHANGED <<config, session, claude, ngrokUrl, killed, claudeExit, exitCode>>

\* startNgrokTunnel (lines 282-300) and the catch of lines 346-350
StartTunnel ==
    /\ pc = "tunnel"
    /\ \/ ngrokUrl' = TRUE /\ pc' = "spawn" /\ lastEvent' = "tunnel"
          /\ UNCHANGED exitCode
       \/ Exit(1) /\ lastEvent' = "startup_failed" /\ UNCHANGED ngrokUrl
    /\ UNCHANGED <<config, session, claude, webhookServer, killed, claudeExit>>

\* pty.spawn and setupClaudeHandlers (lines 333-344), the catch of lines 346-350
Spawn ==
    /\ pc = "spawn"
    /\ \/ claude' = TRUE /\ pc' = "running" /\ lastEvent' = "spawn"
          /\ UNCHANGED exitCode
       \/ Exit(1) /\ lastEvent' = "startup_failed" /\ UNCHANGED claude
    /\ UNCHANGED <<config, session, ngrokUrl, webhookServer, killed, claudeExit>>

Frame == UNCHANGED <<config, claude, ngrokUrl, webhookServer, pc, killed,
                     claudeExit, exitCode>>

\* a chunk of output arrives from the pty
Output ==
    /\ pc = "running"
    /\ Len(claudeDataChunks) < MaxChunks
    /\ \E data \in Chunks :
          /\ Commit(claudeOnData(Session, data))
          /\ lastEvent' = IF containsInterruptText(data)
                          THEN "output_busy" ELSE "output_idle"
    /\ Frame

\* a batch of keystrokes arrives on stdin
Input ==
    /\ pc = "running"
    /\ \E data \in Batches :
          /\ Commit(stdinOnData(Session, data))
          /\ lastEvent' = IF isEnterKey(data) THEN "stdin_enter" ELSE "stdin_keys"
    /\ Frame

\* a request arrives at the webhook server
Webhook ==
    /\ webhookServer /\ pc \in {"tunnel", "spawn", "running"}
    /\ \E req \in Requests :
          /\ Commit(webhookPost(Session, req))
          /\ lastEvent' = IF isUserMessage(req) /\ claude
                          THEN "webhook_message" ELSE "webhook_ignored"
    /\ Frame

\* a scheduled timer fires: the runtime drops it and runs its callback
TimerExpired ==
    /\ pc = "running"
    /\ \E t \in timers :
          LET s == [Session EXCEPT !.timers = @ \ {t}]
          IN  /\ shouldSendNotification(s) => Len(posts) < MaxPosts
              /\ Commit(timerCallback(s))
    /\ lastEvent' = "timer"
    /\ Frame

\* a failed post that is sent again
PostSettled_retries ==
    /\ pc = "running"
    /\ posts # <<>>
    /\ \/ posts' = Tail(posts) /\ lastEvent' = "post_success"
       \/ posts' = Append(Tail(posts), Head(posts)) /\ lastEvent' = "post_failed"
    /\ UNCHANGED <<userHasEngaged, notificationSent, isClaudeWorking,
                   notificationTimer, currentState, claudeDataChunks, timers,
                   ptyInput, episode>>
    /\ UNCHANGED <<config, claude, ngrokUrl, webhookServer, pc, killed,
                   claudeExit, exitCode>>

\* axios.post settles (lines 578-586): either way only the audit log hears of it
PostSettled ==
    /\ pc = "running"
    /\ \E i \in 1..Len(posts) :
          posts' = SubSeq(posts, 1, i - 1) \o SubSeq(posts, i + 1, Len(posts))
    /\ \/ lastEvent' = "post_success"
       \/ lastEvent' = "post_failed"
    /\ UNCHANGED <<userHasEngaged, notificationSent, isClaudeWorking,
                   notificationTimer, currentState, claudeDataChunks, timers,
                   ptyInput, episode>>
    /\ Frame

\* SIGINT / SIGTERM (lines 618-626)
Signal ==
    /\ pc \in {"tunnel", "spawn", "running"}
    /\ killed' = (killed \/ claude)
    /\ lastEvent' = "signal"
    /\ UNCHANGED <<config, session, claude, ngrokUrl, webhookServer, pc,
                   claudeExit, exitCode>>

\* claude.onExit (lines 471-475)
ClaudeExit ==
    /\ pc = "running"
    /\ \E code \in ExitCodes :
          /\ claudeExit' = <<code>>
          /\ Commit(cleanup(Session))
          /\ webhookServer' = FALSE
          /\ Exit(code)
    /\ lastEvent' = "claude_exit"
    /\ UNCHANGED <<config, claude, ngrokUrl, killed>>

\* claude.on('error') (lines 355-359)
ClaudeError ==
    /\ pc = "running"
    /\ Commit(cleanup(Session))
    /\ webhookServer' = FALSE
    /\ Exit(1)
    /\ lastEvent' = "claude_error"
    /\ UNCHANGED <<config, claude, ngrokUrl, killed, claudeExit>>

Next ==
    \/ ConfigError
    \/ StartServer
    \/ StartTunnel
    \/ Spawn
    \/ Output
    \/ Input
    \/ Webhook
    \/ TimerExpired
    \/ PostSettled
    \/ Signal
    \/ ClaudeExit
    \/ ClaudeError

Spec == Init /\ [][Next]_vars

(***************************************************************************)
(* Properties.                                                             *)
(***************************************************************************)
\* some timer is the one in the slot, scheduled, armed when WORKING was left
PendingFromWorking ==
    \E t \in timers : t.id = notificationTimer /\ t.from = "WORKING"

\* C1: the state becomes NOTIFIED only in a timer expiry, taken in WAITING, of
\* the timer that is in the slot, is still scheduled (armed and not cancelled
\* since) and was armed on a WORKING -> WAITING transition; no output chunk
\* and no input event enters NOTIFIED.
C1_NotifiedOnlyByTimer ==
    [][ (currentState' = "NOTIFIED" /\ currentState # "NOTIFIED")
        => /\ lastEvent' = "timer"
           /\ currentState = "WAITING"
           /\ PendingFromWorking
           /\ timers' = {} ]_vars

C1_Witness == lastEvent = "timer" /\ currentState = "NOTIFIED"

\* C2: since the last WORKING -> WAITING transition the state entered NOTIFIED
\* at most once and the notifier was called at most once.
C2_AtMostOneAlert == episode.notified <= 1 /\ episode.attempts <= 1

\* an episode that was notified, then saw input and more output
C2_Witness ==
    /\ episode.attempts = 1 /\ episode.notified = 1 /\ episode.input
    /\ currentState = "WAITING" /\ lastEvent = "output_idle"

\* C3: once an input event has cancelled the timer of an episode, no timer is
\* pending or scheduled, and no eligibility check, notifier call or NOTIFIED
\* transition happens, until the next WORKING -> WAITING transition.
C3_InputCancels ==
    episode.cancelled =>
        /\ notificationTimer = Null /\ timers = {}
        /\ episode.evaluations = 0 /\ episode.attempts = 0
        /\ episode.notified = 0 /\ currentState # "NOTIFIED"

C3_Witness ==
    /\ episode.cancelled /\ lastEvent = "output_idle"
    /\ currentState = "WAITING" /\ userHasEngaged

\* C4: a timer expiry in an episode that began with the user engaged and
\* notifications enabled, and saw no input since, sends one alert and enters
\* NOTIFIED.
C4_AlertEveryEpisode ==
    [][ ( /\ lastEvent' = "timer"
          /\ currentState = "WAITING" /\ PendingFromWorking
          /\ userHasEngaged /\ ~NOTIFICATIONS_DISABLED /\ ~episode.input )
        => /\ currentState' = "NOTIFIED"
           /\ episode'.attempts = 1
           /\ Len(posts') = Len(posts) + 1 ]_vars

\* C5: a timer expiry clears the slot; it calls the notifier, sets
\* notificationSent and enters NOTIFIED exactly when the user has engaged, no
\* notification was sent, claude is not working and notifications are not
\* disabled; otherwise it changes nothing else.
C5_ExpiryIffEligible ==
    [][ lastEvent' = "timer" =>
        /\ notificationTimer' = Null
        /\ IF /\ userHasEngaged /\ ~notificationSent
              /\ ~isClaudeWorking /\ ~NOTIFICATIONS_DISABLED
           THEN /\ currentState' = "NOTIFIED" /\ notificationSent'
                /\ Len(posts') = Len(posts) + 1
                /\ episode'.attempts = Bump(episode.attempts)
                /\ UNCHANGED <<userHasEngaged, isClaudeWorking, claudeDataChunks>>
           ELSE /\ episode'.attempts = episode.attempts
                /\ UNCHANGED <<currentState, userHasEngaged, notificationSent,
                               isClaudeWorking, claudeDataChunks, posts, ptyInput>> ]_vars

\* an expiry that skipped: evaluated, nothing sent, still WAITING
C5_Witness ==
    /\ lastEvent = "timer" /\ currentState = "WAITING"
    /\ episode.evaluations = 1 /\ episode.attempts = 0 /\ ~userHasEngaged

\* C6: userHasEngaged starts false, never goes back to false, and becomes true
\* only in a local batch holding CR or LF or in a bridge-delivered message.
C6_EngagedMonotonic ==
    /\ (pc = "load" => ~userHasEngaged)
    /\ [][ /\ userHasEngaged => userHasEngaged'
           /\ (~userHasEngaged /\ userHasEngaged')
                 => lastEvent' \in {"stdin_enter", "webhook_message"} ]_vars

\* engaged once, then notified, busy again and idle again
C6_Witness ==
    /\ userHasEngaged /\ notificationSent
    /\ currentState = "WAITING" /\ lastEvent = "timer"

\* C7: an output chunk without the busy marker processed in WAITING or
\* NOTIFIED is appended to claudeDataChunks and changes nothing else.
C7_IdleOutputFrame ==
    [][ (lastEvent' = "output_idle" /\ currentState \in {"WAITING", "NOTIFIED"})
        => /\ \E data \in Chunks :
                 /\ ~containsInterruptText(data)
                 /\ claudeDataChunks' = Append(claudeDataChunks, data)
           /\ UNCHANGED <<currentState, isClaudeWorking, userHasEngaged,
                          notificationSent, notificationTimer, timers, posts,
                          ptyInput>> ]_vars

\* two such chunks in a row after a notification
C7_Witness ==
    /\ lastEvent = "output_idle" /\ currentState = "NOTIFIED"
    /\ Len(claudeDataChunks) >= 4

\* the session without claudeDataChunks
Control(s) ==
    [ userHasEngaged |-> s.userHasEngaged, notificationSent |-> s.notificationSent,
      isClaudeWorking |-> s.isClaudeWorking, notificationTimer |-> s.notificationTimer,
      currentState |-> s.currentState, timers |-> s.timers, posts |-> s.posts,
      ptyInput |-> s.ptyInput, episode |-> s.episode ]

C9_DeliveryOutcomeIgnored ==
    [][ lastEvent' \in {"post_success", "post_failed"} =>
        /\ Len(posts') = Len(posts) - 1
        /\ UNCHANGED <<currentState, userHasEngaged, notificationSent,
                       isClaudeWorking, notificationTimer, claudeDataChunks,
                       timers, ptyInput, episode, pc>> ]_vars

C9_Witness ==
    /\ lastEvent = "post_failed" /\ currentState = "NOTIFIED"
    /\ notificationSent /\ posts = <<>> /\ episode.attempts = 1

\* C10: when the process has exited no timer is pending or scheduled, and
\* after the subprocess's exit the exit code is the subprocess's.
C10_ExitClearsTimer ==
    pc = "exited" =>
        /\ notificationTimer = Null /\ timers = {}
        /\ lastEvent = "claude_exit" => exitCode = claudeExit
        /\ lastEvent = "claude_error" => exitCode = <<1>>

\* a stop signal, then the subprocess's exit, while a timer was pending
C10_Witness ==
    /\ pc = "exited" /\ lastEvent = "claude_exit" /\ killed
    /\ exitCode = <<130>>
    /\ currentState = "WAITING" /\ episode.armed = 1
    /\ episode.evaluations = 0 /\ ~episode.cancelled

(***************************************************************************)
(* The task summary, checked on buffers of its own: a session that waits   *)
(* with the countdown running, and the expiry of that timer.               *)
(***************************************************************************)
\* the glyph claude prints before a task, U+25CF
BlackCircle == "<U+25CF>"

\* chunks a buffer can be made of
ExtractChunks ==
    { <<BlackCircle, "Step1", "\n", "work", "\n">>,
      <<BlackCircle, "Step2", "\n", "more", "\n",
        "<U+273B>", " ", "esc ", "to interrupt", ")">>,
      <<"\n", "footer">>,
      <<TaskGlyph, "more", " ">>,
      <<"<ESC>[1;32m", "Done.", "<ESC>[0m", "\n">>,
      <<" ", "work", "\n", " ", "esc ", "to interrupt", "\n", "Done.">>,
      <<"esc ">>,
      <<"to interrupt">>,
      <<"y", Run(FillerLen), "\n">>,
      <<"y", "z">> }

\* section 8's buffer, as claude would print it
ScenarioBuffer ==
    << <<BlackCircle, "Step1", "\n", "work", "\n">>,
       <<BlackCircle, "Step2", "\n", "more", "\n",
         "<U+273B>", " ", "esc ", "to interrupt", ")">>,
       <<"\n", "footer">> >>

\* chunks in the buffers drawn
MaxExtract == 2

ExtractBuffers ==
    { b \in UNION { [1..n -> ExtractChunks] : n \in 1..MaxExtract } :
          ~containsInterruptText(b[Len(b)]) }
    \cup {ScenarioBuffer}

InitExtract ==
    /\ NOTIFICATIONS_DISABLED = FALSE
    /\ SLACK_WEBHOOK_URL = TRUE
    /\ NGROK_DOMAIN = TRUE
    /\ userHasEngaged = TRUE
    /\ notificationSent = FALSE
    /\ isClaudeWorking = FALSE
    /\ notificationTimer = 1
    /\ currentState = "WAITING"
    /\ claudeDataChunks \in ExtractBuffers
    /\ claude = TRUE
    /\ ngrokUrl = TRUE
    /\ webhookServer = TRUE
    /\ timers = {[id |-> 1, from |-> "WORKING"]}
    /\ posts = <<>>
    /\ ptyInput = <<"\r">>
    /\ pc = "running"
    /\ killed = FALSE
    /\ claudeExit = <<>>
    /\ exitCode = <<>>
    /\ episode = [NewEpisode EXCEPT !.armed = 1]
    /\ lastEvent = "output_idle"

SpecExtract == InitExtract /\ [][TimerExpired]_vars

\* the text after the last occurrence of glyph, all of it when there is none
RECURSIVE AfterLast(_, _)
AfterLast(text, glyph) ==
    IF text = <<>> \/ \A i \in 1..Len(text) : text[i] # glyph THEN text
    ELSE AfterLast(Tail(text), glyph)

\* the text before the first line that holds phrase
RECURSIVE BeforeLineWith(_, _, _)
BeforeLineWith(text, phrase, from) ==
    LET ends == {i \in from..Len(text) : text[i] = "\n"}
        end == IF ends = {} THEN Len(text) + 1
               ELSE CHOOSE i \in ends : \A j \in ends : i <= j
    IN  IF Includes(SubSeq(text, from, end - 1), phrase)
        THEN SubSeq(text, 1, from - 2)
        ELSE IF end > Len(text) THEN text
        ELSE BeforeLineWith(text, phrase, end + 1)

\* the first characters of text, n at most
RECURSIVE Cap(_, _)
Cap(text, n) ==
    IF text = <<>> \/ n = 0 THEN <<>>
    ELSE IF CharLen(text[1]) <= n
    THEN <<text[1]>> \o Cap(Tail(text), n - CharLen(text[1]))
    ELSE IF text[1] = Run(FillerLen) THEN <<Run(n)>>
    ELSE <<>>

\* the summary as section 4.5 words it, with U+25CF as the boundary
Summary(chunks) ==
    LET plain == SelectSeq(Join(chunks), LAMBDA tok : tok \notin AnsiCodes)
        task == AfterLast(plain, BlackCircle)
    IN  Cap(Trim(BeforeLineWith(task, EscToInterrupt, 1)), TaskCap)

\* C11: the task summary of the alert is the buffer without colour codes,
\* after its last U+25CF, before the first line holding the footer phrase,
\* trimmed and capped at 1000 characters; section 8's buffer gives
\* "Step2 LF more".
C11_ExtractorSummary ==
    (lastEvent = "timer" /\ posts # <<>>) =>
        /\ posts[1].cleanedTask = Summary(claudeDataChunks)
        /\ claudeDataChunks = ScenarioBuffer
              => posts[1].cleanedTask = <<"Step2", "\n", "more">>

\* C12: notificationSent is true only when an alert was sent since the last
\* WORKING -> WAITING transition; no timer is pending while it is true.
C12_SentMeansAlerted ==
    notificationSent =>
        /\ episode.attempts >= 1
        /\ notificationTimer = Null

\* C13: every change of currentState is IDLE -> WORKING, WORKING -> WAITING,
\* WAITING -> WORKING, WAITING -> NOTIFIED or NOTIFIED -> WAITING.
C13_FiveEdges ==
    [][ currentState' # currentState =>
        <<currentState, currentState'>> \in
            { <<"IDLE", "WORKING">>, <<"WORKING", "WAITING">>,
              <<"WAITING", "WORKING">>, <<"WAITING", "NOTIFIED">>,
              <<"NOTIFIED", "WAITING">> } ]_vars

\* C13, amended: every change of currentState is one of those five edges or
\* NOTIFIED -> WORKING; IDLE is never entered again.
C13_SixEdges ==
    [][ currentState' # currentState =>
        <<currentState, currentState'>> \in
            { <<"IDLE", "WORKING">>, <<"WORKING", "WAITING">>,
              <<"WAITING", "WORKING">>, <<"WAITING", "NOTIFIED">>,
              <<"NOTIFIED", "WAITING">>, <<"NOTIFIED", "WORKING">> } ]_vars

\* busy output right after a notification: NOTIFIED was left for WORKING
C13_Witness ==
    /\ lastEvent = "output_busy" /\ currentState = "WORKING"
    /\ episode.notified = 1 /\ notificationSent /\ Len(claudeDataChunks) = 3

\* C14: a chunk with the busy marker processed outside WORKING enters WORKING,
\* sets isClaudeWorking and leaves no timer pending or scheduled; processed
\* in WORKING it only grows the buffer.
C14_BusyChunk ==
    [][ lastEvent' = "output_busy" =>
        /\ currentState' = "WORKING" /\ isClaudeWorking'
        /\ notificationTimer' = Null /\ timers' = {}
        /\ \E data \in Chunks :
              /\ containsInterruptText(data)
              /\ claudeDataChunks' = Append(claudeDataChunks, data)
        /\ UNCHANGED <<userHasEngaged, notificationSent, posts, ptyInput>>
        /\ currentState = "WORKING" =>
              UNCHANGED <<isClaudeWorking, notificationTimer, timers, episode>> ]_vars

\* a countdown of the last episode was running when claude became busy again
C14_Witness ==
    /\ lastEvent = "output_busy" /\ currentState = "WORKING"
    /\ episode.armed = 1 /\ episode.evaluations = 0 /\ ~episode.cancelled

\* C15: a timer is armed only by a chunk without the marker processed in
\* WORKING, and every such chunk enters WAITING, resets isClaudeWorking and
\* arms one.
C15_ArmedOnlyOnEdge ==
    [][ /\ ( \/ timers' \ timers # {}
             \/ (notificationTimer' # Null /\ notificationTimer' # notificationTimer) )
           => /\ lastEvent' = "output_idle"
              /\ currentState = "WORKING" /\ currentState' = "WAITING"
        /\ (lastEvent' = "output_idle" /\ currentState = "WORKING")
           => /\ currentState' = "WAITING" /\ ~isClaudeWorking'
              /\ notificationTimer' # Null
              /\ timers' = {[id |-> notificationTimer', from |-> "WORKING"]} ]_vars

C15_Witness ==
    /\ lastEvent = "output_idle" /\ currentState = "WAITING"
    /\ notificationTimer # Null /\ episode.armed = 1 /\ episode.evaluations = 0

\* C16: an input event that submits a line, a local batch with CR or LF or a
\* bridge message, empties claudeDataChunks; an input batch without one leaves
\* it; an output chunk is appended to it.
C16_BufferSinceLastLine ==
    [][ /\ lastEvent' \in {"stdin_enter", "webhook_message"}
           => claudeDataChunks' = <<>>
        /\ lastEvent' = "stdin_keys" => UNCHANGED claudeDataChunks
        /\ lastEvent' \in {"output_busy", "output_idle"}
           => \E data \in Chunks : claudeDataChunks' = Append(claudeDataChunks, data) ]_vars

\* C17: at most one timer is scheduled, and it is the one in the slot; an
\* empty slot means nothing is scheduled.
C17_OneTimer ==
    /\ Cardinality(timers) <= 1
    /\ \A t \in timers : t.id = notificationTimer
    /\ notificationTimer # Null => \E t \in timers : t.id = notificationTimer

\* the countdown of a later episode, after an earlier one expired
C17_Witness ==
    /\ notificationTimer # Null /\ Cardinality(timers) = 1
    /\ userHasEngaged /\ notificationSent

\* C18: the summary of a post is that of the buffer as the expiry found it,
\* and no output or input event changes a post in flight.
C18_SummaryAtExpiry ==
    [][ /\ (lastEvent' = "timer" /\ Len(posts') > Len(posts))
           => /\ posts' = Append(posts, posts'[Len(posts')])
              /\ posts'[Len(posts')].cleanedTask = extractTask(claudeDataChunks)
        /\ lastEvent' \in {"output_busy", "output_idle", "stdin_enter",
                           "stdin_keys", "webhook_message", "webhook_ignored"}
           => posts' = posts ]_vars

\* the buffer moved on while the post was in flight
C18_Witness ==
    /\ lastEvent = "output_busy" /\ posts # <<>>
    /\ posts[1].cleanedTask = <<"Done.">>
    /\ extractTask(claudeDataChunks) # <<"Done.">>

\* C19: while a timer is pending or scheduled the state is WAITING and
\* isClaudeWorking is false.
C19_PendingMeansWaiting ==
    (notificationTimer # Null \/ timers # {}) =>
        currentState = "WAITING" /\ ~isClaudeWorking

C19_Witness ==
    /\ notificationTimer # Null /\ currentState = "WAITING"
    /\ lastEvent = "post_success"

\* C20: isClaudeWorking is true exactly in WORKING, and a pending timer that
\* would skip would not skip for 'claude_still_working'.
C20_BusyIffWorking ==
    /\ isClaudeWorking <=> currentState = "WORKING"
    /\ (timers # {} /\ ~shouldSendNotification(Session))
          => getSkipReason(Session) # "claude_still_working"

\* an expiry that skipped, for another reason
C20_Witness ==
    /\ lastEvent = "timer" /\ currentState = "WAITING" /\ ~isClaudeWorking
    /\ NOTIFICATIONS_DISABLED /\ userHasEngaged /\ episode.evaluations = 1

\* C21: in NOTIFIED notificationSent and userHasEngaged are true,
\* notifications are enabled and no timer is pending or scheduled; a step
\* that resets notificationSent in NOTIFIED leaves NOTIFIED.
C21_NotifiedMeansSent ==
    /\ [](currentState = "NOTIFIED" =>
            /\ notificationSent /\ userHasEngaged /\ ~NOTIFICATIONS_DISABLED
            /\ notificationTimer = Null /\ timers = {})
    /\ [][ (currentState = "NOTIFIED" /\ notificationSent /\ ~notificationSent')
              => currentState' # "NOTIFIED" ]_vars

\* NOTIFIED outlives the delivery of its alert
C21_Witness ==
    /\ currentState = "NOTIFIED" /\ lastEvent = "post_failed"
    /\ episode.notified = 1 /\ posts = <<>>
====
